---- MODULE Spec2Model ----
(***************************************************************************)
(* CarePortalDataGenerator (src/synthetic.py): the four table generators   *)
(* generate_donors, generate_churches, generate_needs and                  *)
(* generate_fulfillments, and the pipeline generate_all that chains them.  *)
(*                                                                         *)
(* Every call on the shared random generator is a nondeterministic choice  *)
(* (\E) over the values that call can return.  A loop iteration of a       *)
(* generator is one action; pc is the position of the running call.        *)
(*                                                                         *)
(* Encoding of values:                                                     *)
(*   None                 the empty tuple  <<>>                            *)
(*   f"D{str(i).zfill(4)}" the pair <<"D", i>> (zfill is injective)        *)
(*   datetime             whole hours since datetime(2024, 1, 1)           *)
(*   "%Y-%m-%d" string    <<d>>, d the calendar day counted from           *)
(*                        2024-01-01 (the hour of day is not in it)        *)
(*   DataFrame or None    [present |-> BOOLEAN, rows |-> sequence]         *)
(* Columns that no property below reads and that are filled by independent *)
(* draws (phone, zip_code, quantity, urgency, family_id, notes, ...) are   *)
(* left out of the records.                                                *)
(***************************************************************************)
EXTENDS Integers, Sequences, FiniteSets, TLC

----------------------------------------------------------------------------
(* Bounds of the model *)

\* largest n passed to generate_donors / generate_churches / generate_needs
MaxDonors == 2

MaxChurches == 1

MaxNeeds == 2

\* random.sample(categories, k) is explored over the first CatWindow categories
CatWindow == 4

----------------------------------------------------------------------------
(* Constants of the program *)

need_categories ==
    << "Housing", "Food", "Clothing", "School Supplies",
       "Transportation", "Childcare", "Utilities", "Medical" >>

cities == << "Atlanta", "Charlotte", "Nashville", "Birmingham" >>

church_names ==
    << "Grace Community Church", "First Baptist Church", "Hope Fellowship",
       "New Life Church", "Trinity Methodist", "Cornerstone Church",
       "Redemption Church", "Faith Assembly", "Crossroads Church",
       "Harvest Church", "The Bridge Church", "Lighthouse Church" >>

statuses ==
    << "Requested", "Matched", "In Progress", "Fulfilled", "Closed", "Cancelled" >>

MinSpecialties == 1

MaxSpecialties == 3

MaxDayOffset == 364

MinResponseHours == 1

MaxResponseHours == 48

MinFulfillmentHours == 1

MaxFulfillmentHours == 120

MinRating == 4

MaxRating == 5

HoursPerDay == 24

SecondsPerHour == 3600

MinDuration == 1

----------------------------------------------------------------------------
(* Values *)

none == <<>>

NoFrame == [present |-> FALSE, rows |-> <<>>]

DataFrame(list) == [present |-> TRUE, rows |-> list]

Range(s) == { s[j] : j \in 1..Len(s) }

Max(a, b) == IF a >= b THEN a ELSE b

\* f"{prefix}{str(i).zfill(w)}"
FormatId(prefix, i) == << prefix, i >>

\* datetime(2024, 1, 1) + timedelta(days=d)
BaseDatePlusDays(d) == d * HoursPerDay

\* t + timedelta(hours=h)
PlusHours(t, h) == t + h

\* t.strftime("%Y-%m-%d"): the calendar day of t, its hour of day dropped
strftime(t) == << t \div HoursPerDay >>

\* pd.to_datetime(s) of a "%Y-%m-%d" string: midnight of that day
to_datetime(s) == s[1] * HoursPerDay

\* (a - b).total_seconds()
total_seconds(a, b) == (a - b) * SecondsPerHour

\* ";".join(list): the items with a ";" between neighbours
RECURSIVE Join(_)
Join(list) ==
    IF Len(list) = 0 THEN << >>
    ELSE IF Len(list) = 1 THEN << list[1] >>
    ELSE << list[1], ";" >> \o Join(Tail(list))

\* random.sample(population, k): k positions of the population, none taken twice
SampleWithReplacement(population, k) ==
    { [j \in 1..k |-> population[f[j]]] : f \in [1..k -> 1..Len(population)] }

Sample(population, k) ==
    { [j \in 1..k |-> population[f[j]]] :
        f \in { g \in [1..k -> 1..Len(population)] :
                  \A a, b \in 1..k : a # b => g[a] # g[b] } }

----------------------------------------------------------------------------
(* State *)

VARIABLES
    entry,          \* the method the caller invoked
    pc,             \* the generator that is running, "done" or "raised"
    n_donors,       \* argument n of generate_donors
    n_churches,     \* argument n of generate_churches
    n_needs,        \* argument n of generate_needs
    i,              \* loop variable of the running generator
    donors,         \* list built by generate_donors
    churches,       \* list built by generate_churches
    donors_df,      \* argument donors_df of generate_needs
    churches_df,    \* argument churches_df of generate_needs
    needs,          \* list built by generate_needs, then the needs table
    drawn,          \* per need: the hour offsets that generate_needs drew
    fulfillments,   \* table returned by generate_fulfillments
    error           \* the exception that ended the call, or none

vars ==
    << entry, pc, n_donors, n_churches, n_needs, i, donors, churches,
       donors_df, churches_df, needs, drawn, fulfillments, error >>

----------------------------------------------------------------------------
(* generate_donors *)

DonorRecord(k, specialties) ==
    [ donor_id    |-> FormatId("D", k),
      specialties |-> Join(specialties) ]

\* one iteration of the loop; the sample is explored over the first
\* `window` categories
GenerateDonorsRow(window) ==
    /\ pc = "donors"
    /\ i <= n_donors
    /\ \E num_specialties \in MinSpecialties..MaxSpecialties :
          /\ num_specialties <= window
          /\ \E specialties \in Sample(SubSeq(need_categories, 1, window), num_specialties) :
                donors' = Append(donors, DonorRecord(i, specialties))
    /\ i' = i + 1
    /\ UNCHANGED << entry, pc, n_donors, n_churches, n_needs, churches,
                    donors_df, churches_df, needs, drawn, fulfillments, error >>

\* return pd.DataFrame(donors); generate_all goes on with generate_churches
GenerateDonorsReturn ==
    /\ pc = "donors"
    /\ i > n_donors
    /\ donors_df' = DataFrame(donors)
    /\ pc' = IF entry = "generate_all" THEN "churches" ELSE "done"
    /\ i' = 1
    /\ UNCHANGED << entry, n_donors, n_churches, n_needs, donors, churches,
                    churches_df, needs, drawn, fulfillments, error >>

----------------------------------------------------------------------------
(* generate_churches *)

ChurchName(k, city) ==
    LET base_name == church_names[(k % Len(church_names)) + 1]
    IN  IF k > Len(church_names) THEN << base_name, " - ", city >> ELSE << base_name >>

ChurchRecord(k, city) ==
    [ church_id |-> FormatId("C", k),
      name      |-> ChurchName(k, city) ]

GenerateChurchesRow ==
    /\ pc = "churches"
    /\ i <= n_churches
    /\ \E city \in Range(cities) :
          churches' = Append(churches, ChurchRecord(i, city))
    /\ i' = i + 1
    /\ UNCHANGED << entry, pc, n_donors, n_churches, n_needs, donors,
                    donors_df, churches_df, needs, drawn, fulfillments, error >>

\* return pd.DataFrame(churches); generate_all goes on with generate_needs
GenerateChurchesReturn ==
    /\ pc = "churches"
    /\ i > n_churches
    /\ churches_df' = DataFrame(churches)
    /\ pc' = IF entry = "generate_all" THEN "needs" ELSE "done"
    /\ i' = 1
    /\ UNCHANGED << entry, n_donors, n_churches, n_needs, donors, churches,
                    donors_df, needs, drawn, fulfillments, error >>

----------------------------------------------------------------------------
(* generate_needs *)

MatchedStatusesWithCancelled ==
    { "Matched", "In Progress", "Fulfilled", "Closed", "Cancelled" }

\* if status in ["Matched", "In Progress", "Fulfilled", "Closed"]
MatchedStatuses == { "Matched", "In Progress", "Fulfilled", "Closed" }

\* if status in ["Fulfilled", "Closed"]
FulfilledStatuses == { "Fulfilled", "Closed" }

DonorSourceSwapped == churches_df

\* the table assigned_donor is drawn from
DonorSource == donors_df

\* the table assigned_church is drawn from
ChurchSource == churches_df

\* df[column].tolist()
ColumnList(df, column) == [ j \in 1..Len(df.rows) |-> df.rows[j][column] ]

\* what the assignment ends as: None when the table is None, else
\* random.choice(df[column].tolist())
Assigned(df, column) ==
    IF df.present THEN Range(ColumnList(df, column)) ELSE { none }

\* df[column] of a frame built from no rows has no such column
Raises(df) == df.present /\ df.rows = << >>

NeedRecord(k, category, request_date, status, matched_date, fulfilled_date, assigned_donor, assigned_church) ==
    [ need_id            |-> FormatId("N", k),
      request_date       |-> strftime(request_date),
      category           |-> category,
      status             |-> status,
      matched_date       |-> IF matched_date # none THEN strftime(matched_date[1]) ELSE none,
      fulfilled_date     |-> IF fulfilled_date # none THEN strftime(fulfilled_date[1]) ELSE none,
      assigned_donor_id  |-> assigned_donor,
      assigned_church_id |-> assigned_church ]

AppendNeed(record, response, fulfillment) ==
    /\ needs' = Append(needs, record)
    /\ drawn' = Append(drawn, [response |-> response, fulfillment |-> fulfillment])

\* one iteration of the loop that runs to its end; the draws are explored
\* over the given sets
GenerateNeedsRow(Categories, Days, ResponseHours, FulfillmentHours) ==
    /\ pc = "needs"
    /\ i <= n_needs
    /\ \E category \in Categories, day \in Days, status \in Range(statuses) :
          LET request_date == BaseDatePlusDays(day) IN
          IF status \in MatchedStatuses
          THEN \E h1 \in ResponseHours :
                 \E assigned_donor \in Assigned(DonorSource, "donor_id") :
                   \E assigned_church \in Assigned(ChurchSource, "church_id") :
                     LET matched_date == PlusHours(request_date, h1) IN
                     /\ ~Raises(DonorSource)
                     /\ ~Raises(ChurchSource)
                     /\ IF status \in FulfilledStatuses
                        THEN \E h2 \in FulfillmentHours :
                               LET fulfilled_date == PlusHours(matched_date, h2) IN
                               AppendNeed(
                                 NeedRecord(i, category, request_date, status,
                                            << matched_date >>, << fulfilled_date >>,
                                            assigned_donor, assigned_church),
                                 << h1 >>, << h2 >>)
                        ELSE AppendNeed(
                               NeedRecord(i, category, request_date, status,
                                          << matched_date >>, none,
                                          assigned_donor, assigned_church),
                               << h1 >>, none)
          ELSE AppendNeed(
                 NeedRecord(i, category, request_date, status, none, none, none, none),
                 none, none)
    /\ i' = i + 1
    /\ UNCHANGED << entry, pc, n_donors, n_churches, n_needs, donors, churches,
                    donors_df, churches_df, fulfillments, error >>

\* an iteration that draws a matched status and looks up the id column of a
\* frame that has none: the KeyError ends the call
GenerateNeedsRaise ==
    /\ pc = "needs"
    /\ i <= n_needs
    /\ \E status \in Range(statuses) : status \in MatchedStatuses
    /\ Raises(DonorSource) \/ Raises(ChurchSource)
    /\ pc' = "raised"
    /\ error' = << "KeyError" >>
    /\ UNCHANGED << entry, n_donors, n_churches, n_needs, i, donors, churches,
                    donors_df, churches_df, needs, drawn, fulfillments >>

\* return pd.DataFrame(needs); generate_all goes on with generate_fulfillments
GenerateNeedsReturn ==
    /\ pc = "needs"
    /\ i > n_needs
    /\ pc' = IF entry = "generate_all" THEN "fulfillments" ELSE "done"
    /\ i' = 1
    /\ UNCHANGED << entry, n_donors, n_churches, n_needs, donors, churches,
                    donors_df, churches_df, needs, drawn, fulfillments, error >>

----------------------------------------------------------------------------
(* generate_fulfillments *)

RetainedStatusesFulfilledOnly == { "Fulfilled" }

\* needs_df["status"].isin(["Fulfilled", "Closed"])
RetainedStatuses == { "Fulfilled", "Closed" }

\* needs_df[needs_df["status"].isin([...])].copy(): the rows kept, in order
fulfilled_needs(needs_df) ==
    SelectSeq(needs_df, LAMBDA need : need.status \in RetainedStatuses)

HoursBetweenUnclamped(later, earlier) ==
    total_seconds(to_datetime(later), to_datetime(earlier)) \div SecondsPerHour

\* max(1, int((later - earlier).total_seconds() / 3600)) of two parsed dates
HoursBetween(later, earlier) ==
    Max(MinDuration,
        total_seconds(to_datetime(later), to_datetime(earlier)) \div SecondsPerHour)

FulfillmentRecordSwapped(need, k, rating) ==
    [ fulfillment_id         |-> FormatId("FH", k),
      need_id                |-> need.need_id,
      donor_id               |-> need.assigned_church_id,
      church_id              |-> need.assigned_donor_id,
      request_date           |-> need.request_date,
      matched_date           |-> need.matched_date,
      fulfilled_date         |-> need.fulfilled_date,
      response_time_hours    |-> HoursBetween(need.matched_date, need.request_date),
      fulfillment_time_hours |-> HoursBetween(need.fulfilled_date, need.matched_date),
      category               |-> need.category,
      donor_rating           |-> rating ]

FulfillmentRecord(need, k, rating) ==
    [ fulfillment_id         |-> FormatId("FH", k),
      need_id                |-> need.need_id,
      donor_id               |-> need.assigned_donor_id,
      church_id              |-> need.assigned_church_id,
      request_date           |-> need.request_date,
      matched_date           |-> need.matched_date,
      fulfilled_date         |-> need.fulfilled_date,
      response_time_hours    |-> HoursBetween(need.matched_date, need.request_date),
      fulfillment_time_hours |-> HoursBetween(need.fulfilled_date, need.matched_date),
      category               |-> need.category,
      donor_rating           |-> rating ]

\* the loop over fulfilled_needs.iterrows(): row j is appended with the id
\* len(fulfillments) + 1
RECURSIVE FulfillmentLoop(_, _, _, _)
FulfillmentLoop(rows, ratings, j, acc) ==
    IF j > Len(rows) THEN acc
    ELSE FulfillmentLoop(rows, ratings, j + 1,
                         Append(acc, FulfillmentRecord(rows[j], Len(acc) + 1, ratings[j])))

\* the whole call; ratings are the random.randint(4, 5) draws of the rows
GenerateFulfillments ==
    /\ pc = "fulfillments"
    /\ needs # << >>
    /\ LET rows == fulfilled_needs(needs) IN
       \E ratings \in [1..Len(rows) -> MinRating..MaxRating] :
          fulfillments' = FulfillmentLoop(rows, ratings, 1, << >>)
    /\ pc' = "done"
    /\ UNCHANGED << entry, n_donors, n_churches, n_needs, i, donors, churches,
                    donors_df, churches_df, needs, drawn, error >>

\* needs_df["status"] of a frame built from no rows has no such column: the
\* KeyError ends the call
GenerateFulfillmentsRaise ==
    /\ pc = "fulfillments"
    /\ needs = << >>
    /\ pc' = "raised"
    /\ error' = << "KeyError" >>
    /\ UNCHANGED << entry, n_donors, n_churches, n_needs, i, donors, churches,
                    donors_df, churches_df, needs, drawn, fulfillments >>

----------------------------------------------------------------------------
(* The calls and the values their random draws are explored over *)

\* the frame generate_donors(k) returns when every donor draws the first category
DonorsFrame(k) ==
    DataFrame([ j \in 1..k |-> DonorRecord(j, << need_categories[1] >>) ])

\* the frame generate_churches(k) returns
ChurchesFrame(k) ==
    DataFrame([ j \in 1..k |-> ChurchRecord(j, cities[1]) ])

\* The hour offsets are explored over these values of
\* MinResponseHours..MaxResponseHours and MinFulfillmentHours..MaxFulfillmentHours:
\* the ends of the ranges and the offsets on both sides of a change of
\* calendar day.
BoundaryResponseHours ==
    { MinResponseHours, HoursPerDay - 1, HoursPerDay, MaxResponseHours - 1, MaxResponseHours }

BoundaryFulfillmentHours ==
    { MinFulfillmentHours, HoursPerDay - 1, HoursPerDay, MaxFulfillmentHours }

Start(e, p, nd, nc, nn, ddf, cdf) ==
    /\ entry = e
    /\ pc = p
    /\ n_donors = nd
    /\ n_churches = nc
    /\ n_needs = nn
    /\ i = 1
    /\ donors = << >>
    /\ churches = << >>
    /\ donors_df = ddf
    /\ churches_df = cdf
    /\ needs = << >>
    /\ drawn = << >>
    /\ fulfillments = << >>
    /\ error = none

\* generate_all(n_donors, n_churches, n_needs).  The specialties of a donor
\* reach no later step, so here they are explored over the first category
\* alone; SpecDonors explores them over CatWindow categories.
Init ==
    \E nd \in 0..MaxDonors, nc \in 0..MaxChurches, nn \in 0..MaxNeeds :
       Start("generate_all", "donors", nd, nc, nn, NoFrame, NoFrame)

Next ==
    \/ GenerateDonorsRow(1)
    \/ GenerateDonorsReturn
    \/ GenerateChurchesRow
    \/ GenerateChurchesReturn
    \/ GenerateNeedsRow({ need_categories[1], need_categories[2] }, { MaxDayOffset },
                        { MaxResponseHours }, { MaxFulfillmentHours })
    \/ GenerateNeedsRaise
    \/ GenerateNeedsReturn
    \/ GenerateFulfillments
    \/ GenerateFulfillmentsRaise

Spec == Init /\ [][Next]_vars

\* generate_all(1, 1, n_needs), the hour offsets explored at the day boundaries
InitHours ==
    \E nn \in 0..MaxNeeds :
       Start("generate_all", "donors", 1, 1, nn, NoFrame, NoFrame)

NextHours ==
    \/ GenerateDonorsRow(1)
    \/ GenerateDonorsReturn
    \/ GenerateChurchesRow
    \/ GenerateChurchesReturn
    \/ GenerateNeedsRow({ need_categories[1] }, { 0 },
                        BoundaryResponseHours, BoundaryFulfillmentHours)
    \/ GenerateNeedsReturn
    \/ GenerateFulfillments
    \/ GenerateFulfillmentsRaise

SpecHours == InitHours /\ [][NextHours]_vars

\* generate_needs(n, donors_df, churches_df), each table None or a frame
\* returned by its generator
InitNeeds ==
    \E nn \in 0..MaxNeeds,
       ddf \in { NoFrame } \cup { DonorsFrame(k) : k \in 0..MaxDonors },
       cdf \in { NoFrame } \cup { ChurchesFrame(k) : k \in 0..MaxChurches } :
       Start("generate_needs", "needs", 0, 0, nn, ddf, cdf)

NextNeeds ==
    \/ GenerateNeedsRow({ need_categories[1] }, { 0, MaxDayOffset },
                        { MinResponseHours }, { MinFulfillmentHours })
    \/ GenerateNeedsRaise
    \/ GenerateNeedsReturn

SpecNeeds == InitNeeds /\ [][NextNeeds]_vars

\* generate_donors(n)
InitDonors ==
    \E nd \in 0..MaxDonors :
       Start("generate_donors", "donors", nd, 0, 0, NoFrame, NoFrame)

NextDonors ==
    \/ GenerateDonorsRow(CatWindow)
    \/ GenerateDonorsReturn

SpecDonors == InitDonors /\ [][NextDonors]_vars

----------------------------------------------------------------------------
(* Properties *)

Rows(table) == 1..Len(table)

AllUnset(need) ==
    /\ need.matched_date = none
    /\ need.fulfilled_date = none
    /\ need.assigned_donor_id = none
    /\ need.assigned_church_id = none

\* the need a fulfillment was derived from
SourceNeeds(f) == { j \in Rows(needs) : needs[j].need_id = f.need_id }

\* text.split(";"): the runs of items between the ";" separators
RECURSIVE SplitLoop(_, _, _)
SplitLoop(text, piece, acc) ==
    IF Len(text) = 0 THEN Append(acc, piece)
    ELSE IF Head(text) = ";" THEN SplitLoop(Tail(text), << >>, Append(acc, piece))
    ELSE SplitLoop(Tail(text), Append(piece, Head(text)), acc)

Split(text) == SplitLoop(text, << >>, << >>)

\* C1 as stated: a generated need has status Requested if and only if its
\* matched_date, fulfilled_date, assigned_donor_id and assigned_church_id are
\* all unset.
C1_RequestedIffAllUnset ==
    \A j \in Rows(needs) :
       (needs[j].status = "Requested") <=> AllUnset(needs[j])

\* C1 as amended: a generated need has status Requested or Cancelled if and
\* only if its matched_date, fulfilled_date, assigned_donor_id and
\* assigned_church_id are all unset.
C1_RequestedOrCancelledIffAllUnset ==
    \A j \in Rows(needs) :
       (needs[j].status \in { "Requested", "Cancelled" }) <=> AllUnset(needs[j])

C1_Witness ==
    /\ pc = "done"
    /\ donors_df.present /\ churches_df.present
    /\ \E j, k \in Rows(needs) :
          /\ needs[j].status = "Cancelled" /\ AllUnset(needs[j])
          /\ needs[k].status = "Matched" /\ ~AllUnset(needs[k])

\* C2: in every generated need with status Fulfilled or Closed, fulfilled_date
\* is strictly later than matched_date, which is strictly later than
\* request_date.
C2_DatesStrictlyOrdered ==
    \A j \in Rows(needs) :
       needs[j].status \in { "Fulfilled", "Closed" } =>
          /\ needs[j].fulfilled_date[1] > needs[j].matched_date[1]
          /\ needs[j].matched_date[1] > needs[j].request_date[1]

\* C3: generate_needs with a donor table of size 0 and a church table of size
\* 0 raises nothing, returns all n rows, and every row has both assignment
\* fields unset.
C3_EmptyTablesLeaveAssignmentsUnset ==
    (donors_df = DonorsFrame(0) /\ churches_df = ChurchesFrame(0)) =>
       /\ error = none
       /\ pc = "done" =>
             /\ Len(needs) = n_needs
             /\ \A j \in Rows(needs) :
                   /\ needs[j].assigned_donor_id = none
                   /\ needs[j].assigned_church_id = none

C5_DurationsAtLeastOne ==
    \A k \in Rows(fulfillments) :
       /\ fulfillments[k].response_time_hours \in Nat
       /\ fulfillments[k].response_time_hours >= 1
       /\ fulfillments[k].fulfillment_time_hours \in Nat
       /\ fulfillments[k].fulfillment_time_hours >= 1

C5_Witness ==
    /\ pc = "done"
    /\ \E k \in Rows(fulfillments) :
          /\ fulfillments[k].matched_date = fulfillments[k].request_date
          /\ fulfillments[k].response_time_hours = 1
          /\ fulfillments[k].fulfillment_time_hours = 5 * HoursPerDay

\* C7: when generate_needs is called with the donor table or the church table
\* None and any table that is supplied has rows, it raises nothing and returns
\* all n rows; the assignment of a table that is None is unset on every row,
\* while a row whose status is Matched, In Progress, Fulfilled or Closed still
\* has its matched_date, its fulfilled_date when Fulfilled or Closed, and the
\* assignment from the table that was supplied.
C7_AbsentTableLeavesAssignmentUnset ==
    ( /\ ~donors_df.present \/ ~churches_df.present
      /\ ~Raises(donors_df)
      /\ ~Raises(churches_df) ) =>
       /\ error = none
       /\ pc = "done" => Len(needs) = n_needs
       /\ \A j \in Rows(needs) :
             /\ ~donors_df.present => needs[j].assigned_donor_id = none
             /\ ~churches_df.present => needs[j].assigned_church_id = none
             /\ needs[j].status \in { "Matched", "In Progress", "Fulfilled", "Closed" } =>
                   /\ needs[j].matched_date # none
                   /\ needs[j].status \in { "Fulfilled", "Closed" } =>
                         needs[j].fulfilled_date # none
                   /\ donors_df.present =>
                         needs[j].assigned_donor_id \in Range(ColumnList(donors_df, "donor_id"))
                   /\ churches_df.present =>
                         needs[j].assigned_church_id \in Range(ColumnList(churches_df, "church_id"))

C7_Witness ==
    /\ pc = "done"
    /\ ~donors_df.present
    /\ churches_df.present
    /\ Len(needs) = n_needs
    /\ \E j, k \in Rows(needs) :
          /\ needs[j].status = "Fulfilled"
          /\ needs[j].assigned_donor_id = none
          /\ needs[j].assigned_church_id = << "C", 1 >>
          /\ needs[j].fulfilled_date # none
          /\ needs[k].status = "In Progress"
          /\ needs[k].assigned_donor_id = none
          /\ needs[k].matched_date # none

\* C8: the specialties of every generated donor have between 1 and 3 entries,
\* no entry twice, and every entry is one of the need categories.
C8_SpecialtiesDistinctCategories ==
    \A j \in Rows(donors) :
       LET entries == Split(donors[j].specialties)
       IN  /\ Len(entries) >= 1
           /\ Len(entries) <= 3
           /\ \A a, b \in Rows(entries) : a # b => entries[a] # entries[b]
           /\ \A a \in Rows(entries) :
                 \E c \in Range(need_categories) : entries[a] = << c >>

C8_Witness ==
    /\ pc = "done"
    /\ \E j, k \in Rows(donors) :
          /\ Len(Split(donors[j].specialties)) = 3
          /\ Len(Split(donors[k].specialties)) = 1

\* C9: after generate_all with positive counts, every need with status
\* Matched, In Progress, Fulfilled or Closed has an assigned_donor_id that is
\* the id of a generated donor and an assigned_church_id that is the id of a
\* generated church, and every fulfillment carries the donor id, church id,
\* category and three dates of its source need.
C9_ReferentialIntegrity ==
    (entry = "generate_all" /\ n_donors > 0 /\ n_churches > 0) =>
       /\ \A j \in Rows(needs) :
             needs[j].status \in { "Matched", "In Progress", "Fulfilled", "Closed" } =>
                /\ \E d \in Rows(donors) : donors[d].donor_id = needs[j].assigned_donor_id
                /\ \E c \in Rows(churches) : churches[c].church_id = needs[j].assigned_church_id
       /\ \A k \in Rows(fulfillments) :
             /\ SourceNeeds(fulfillments[k]) # { }
             /\ \A j \in SourceNeeds(fulfillments[k]) :
                   /\ fulfillments[k].donor_id = needs[j].assigned_donor_id
                   /\ fulfillments[k].church_id = needs[j].assigned_church_id
                   /\ fulfillments[k].category = needs[j].category
                   /\ fulfillments[k].request_date = needs[j].request_date
                   /\ fulfillments[k].matched_date = needs[j].matched_date
                   /\ fulfillments[k].fulfilled_date = needs[j].fulfilled_date

C9_Witness ==
    /\ pc = "done"
    /\ entry = "generate_all"
    /\ n_donors = 2
    /\ \E k \in Rows(fulfillments) :
          /\ fulfillments[k].donor_id = << "D", 2 >>
          /\ fulfillments[k].church_id = << "C", 1 >>
          /\ fulfillments[k].category = need_categories[2]
          /\ fulfillments[k].fulfilled_date # fulfillments[k].matched_date
    /\ \E j \in Rows(needs) :
          /\ needs[j].status = "Matched"
          /\ needs[j].assigned_donor_id = << "D", 1 >>

\* C10: in every fulfillment derived from a generated need,
\* response_time_hours is the number of hours by which generate_needs placed
\* matched_date after request_date, and fulfillment_time_hours the number of
\* hours by which it placed fulfilled_date after matched_date.
C10_DurationsEqualDrawnOffsets ==
    \A k \in Rows(fulfillments) :
       \A j \in SourceNeeds(fulfillments[k]) :
          /\ fulfillments[k].response_time_hours = drawn[j].response[1]
          /\ fulfillments[k].fulfillment_time_hours = drawn[j].fulfillment[1]

====
